---- MODULE Spec2Model ----
(***************************************************************************)
(* The shard orchestrator of the janitor test tooling                      *)
(* (packages/testing/janitor/src/core/orchestrator.ts, whose text is kept  *)
(* in src/packages/testing/janitor/src/core/orchestrator.test.ts, lines    *)
(* 169-352).  One call of orchestrate(specs, numShards, metrics, config)   *)
(* is modelled as a run of the state machine: Init is the moment of the    *)
(* call with its arguments, every action is one step of the function body, *)
(* and pc = "done" is the moment of the return.                            *)
(*                                                                         *)
(* Strings are modelled by numbers.  A spec path is a number in 1..n.  A   *)
(* capability name is a number in 0..MaxCap ordered as the names are       *)
(* ordered by Array.prototype.sort() (UTF-16 code units); 0 is the empty   *)
(* string, which is the only falsy name.  Durations are natural numbers of *)
(* milliseconds; for the magnitudes modelled every quotient the code forms *)
(* in floating point is compared exactly as the rational is.               *)
(*                                                                         *)
(* The discovery analyzer (test-discovery-analyzer.ts) that produces the   *)
(* specs is modelled beside it: one call of discover() over the source     *)
(* files of the project is a run of SpecDiscover.  A source file is the    *)
(* tree of its call expressions and blocks, the nodes listed in document   *)
(* order; a block is named by the index of its node, which stands for its  *)
(* start offset.  A title is the list of its tokens, a token being a tag   *)
(* or a stretch of other text.                                             *)
(***************************************************************************)
EXTENDS Integers, Sequences, FiniteSets, TLC

\* ------------------------------------------------------------------ bounds
MaxSpecs == 3
MaxShards == 3
MaxCap == 2
MaxDuration == 2
MaxDefaultDuration == 1
MaxGroupDurationBound == 2
MaxNodes == 4      \* nodes of a source file
MaxFiles == 3      \* source files of a project
MaxSetNodes == 2   \* nodes of a source file when two files have trees of their own

\* ------------------------------------------------------------- value model
\* PackingItem.capability === null
NoCapability == -1
\* the capability name '' (a tag equal to the capability prefix yields it)
EmptyName == 0
Capabilities == 0..MaxCap

\* JavaScript truthiness of a `string | null` value: null and '' are falsy.
Truthy(capability) == capability # NoCapability /\ capability # EmptyName

VARIABLES
    specs,        \* argument: DiscoveredSpec[]
    numShards,    \* argument
    metrics,      \* argument: Record<string, number>, a function on the paths that have an entry
    config,       \* argument: OrchestrationConfig
    pc,           \* position in the body of orchestrate
    enriched,     \* SpecWithDuration[]
    groups,       \* Map<string, SpecWithDuration[]> in insertion order
    standard,     \* SpecWithDuration[]
    items,        \* PackingItem[] handed to assignToShards
    buckets,      \* Bucket[]
    nextItem,     \* index of the item the for-of loop of assignToShards takes next
    result,       \* OrchestrationResult
    files,        \* discover: the source files, in the order getSourceFiles returns them
    janitorConfig,\* discover: getConfig(), its skipTags and capabilityPrefix
    dpc,          \* position in the body of discover
    analysed,     \* per file analysed so far: its skipped scopes, TestCallInfo[] and spec
    found,        \* discover: the local array `specs`
    report        \* DiscoveryReport

orchestrateVars == <<specs, numShards, metrics, config, pc, enriched, groups, standard,
                     items, buckets, nextItem, result>>

discoverVars == <<files, janitorConfig, dpc, analysed, found, report>>

vars == <<orchestrateVars, discoverVars>>

\* --------------------------------------------------------------- helpers
RECURSIVE SumDuration(_)
\* xs.reduce((sum, s) => sum + s.duration, 0)
SumDuration(xs) ==
    IF xs = <<>> THEN 0 ELSE xs[1].duration + SumDuration(Tail(xs))

RECURSIVE InsertDesc(_, _)
\* x placed after every element whose duration is >= its own: with SortDesc this is
\* the stable sort the engine performs for the comparator (a, b) => b.duration - a.duration
InsertDesc(sorted, x) ==
    IF sorted = <<>> THEN <<x>>
    ELSE IF sorted[1].duration >= x.duration
         THEN <<sorted[1]>> \o InsertDesc(Tail(sorted), x)
         ELSE <<x>> \o sorted

RECURSIVE SortDescFrom(_, _)
SortDescFrom(acc, xs) ==
    IF xs = <<>> THEN acc ELSE SortDescFrom(InsertDesc(acc, xs[1]), Tail(xs))

\* xs.sort((a, b) => b.duration - a.duration)
SortDesc(xs) == SortDescFrom(<<>>, xs)

\* ------------------------------------------------------- enrichWithDuration
\* metrics[spec.path] || defaultDuration
DurationOf(path, m, defaultDuration) ==
    IF path \in DOMAIN m /\ m[path] # 0 THEN m[path] ELSE defaultDuration

enrichWithDuration(ss, m, defaultDuration) ==
    [i \in 1..Len(ss) |->
        [path |-> ss[i].path,
         capabilities |-> ss[i].capabilities,
         duration |-> DurationOf(ss[i].path, m, defaultDuration)]]

\* -------------------------------------------------------- groupByCapability
\* index of the Map entry with key cap, 0 when the Map has none
GroupIndex(gs, cap) ==
    IF \E i \in 1..Len(gs) : gs[i].capability = cap
    THEN CHOOSE i \in 1..Len(gs) : gs[i].capability = cap
    ELSE 0

\* mutant of GroupPush: the Map is never looked up, every spec opens an entry of its own
GroupPush_NoLookup(gs, cap, spec) ==
    Append(gs, [capability |-> cap, specs |-> <<spec>>])

\* groups.has(cap) || groups.set(cap, []); groups.get(cap).push(spec)
GroupPush(gs, cap, spec) ==
    IF GroupIndex(gs, cap) = 0
    THEN Append(gs, [capability |-> cap, specs |-> <<spec>>])
    ELSE [gs EXCEPT ![GroupIndex(gs, cap)].specs = Append(@, spec)]

RECURSIVE GroupFrom(_, _, _)
GroupFrom(gs, std, xs) ==
    IF xs = <<>> THEN [groups |-> gs, standard |-> std]
    ELSE IF Len(xs[1].capabilities) > 0
         THEN GroupFrom(GroupPush(gs, xs[1].capabilities[1], xs[1]), std, Tail(xs))
         ELSE GroupFrom(gs, Append(std, xs[1]), Tail(xs))

groupByCapability(enr) == GroupFrom(<<>>, <<>>, enr)

\* --------------------------------------------------------- splitLargeGroups
\* mutant of CeilDiv: the quotient is rounded down
CeilDiv_Floor(a, b) == a \div b

\* Math.ceil(a / b) for a >= 0, b >= 1
CeilDiv(a, b) == (a + b - 1) \div b

\* subGroup.map((s) => s.path)
PathsOf(xs) == [i \in 1..Len(xs) |-> xs[i].path]

RECURSIVE SubGroupsFrom_NoEmptyCheck(_, _, _, _, _)
\* mutant of SubGroupsFrom: the test `currentSubGroup.length > 0` is left out
SubGroupsFrom_NoEmptyCheck(subGroups, currentTotal, xs, totalDuration, numSubGroups) ==
    IF xs = <<>> THEN subGroups
    ELSE LET spec == xs[1]
             opens == (currentTotal + spec.duration) * numSubGroups > totalDuration
             sg == IF opens THEN Append(subGroups, <<>>) ELSE subGroups
             ct == IF opens THEN 0 ELSE currentTotal
         IN SubGroupsFrom_NoEmptyCheck([sg EXCEPT ![Len(sg)] = Append(@, spec)],
                                       ct + spec.duration, Tail(xs), totalDuration, numSubGroups)

RECURSIVE SubGroupsFrom(_, _, _, _, _)
\* the loop `for (const spec of specs)` of splitLargeGroups; the test
\* currentTotal + spec.duration > totalDuration / numSubGroups is made by cross-multiplying
SubGroupsFrom(subGroups, currentTotal, xs, totalDuration, numSubGroups) ==
    IF xs = <<>> THEN subGroups
    ELSE LET spec == xs[1]
             opens == /\ (currentTotal + spec.duration) * numSubGroups > totalDuration
                      /\ Len(subGroups[Len(subGroups)]) > 0
             sg == IF opens THEN Append(subGroups, <<>>) ELSE subGroups
             ct == IF opens THEN 0 ELSE currentTotal
         IN SubGroupsFrom([sg EXCEPT ![Len(sg)] = Append(@, spec)],
                          ct + spec.duration, Tail(xs), totalDuration, numSubGroups)

\* the subGroups of one group that is split
SubGroups(sorted, maxGroupDuration) ==
    SubGroupsFrom(<< <<>> >>, 0, sorted, SumDuration(sorted),
                  CeilDiv(SumDuration(sorted), maxGroupDuration))

\* mutant of IsSplit: no group is ever split
IsSplit_Never(sorted, maxGroupDuration) == FALSE

\* the condition under which a group is split
IsSplit(sorted, maxGroupDuration) ==
    SumDuration(sorted) > maxGroupDuration /\ Len(sorted) > 1

\* mutant of GroupItems: every item of a split group is given the group's total duration
GroupItems_TotalDuration(g, maxGroupDuration) ==
    LET sorted == SortDesc(g.specs)
    IN IF IsSplit(sorted, maxGroupDuration)
       THEN LET subs == SubGroups(sorted, maxGroupDuration)
            IN [i \in 1..Len(subs) |->
                   [capability |-> g.capability,
                    specs |-> PathsOf(subs[i]),
                    duration |-> SumDuration(sorted)]]
       ELSE << [capability |-> g.capability,
                specs |-> PathsOf(sorted),
                duration |-> SumDuration(sorted)] >>

\* the packing items one Map entry yields (one iteration of the outer loop)
GroupItems(g, maxGroupDuration) ==
    LET sorted == SortDesc(g.specs)
    IN IF IsSplit(sorted, maxGroupDuration)
       THEN LET subs == SubGroups(sorted, maxGroupDuration)
            IN [i \in 1..Len(subs) |->
                   [capability |-> g.capability,
                    specs |-> PathsOf(subs[i]),
                    duration |-> SumDuration(subs[i])]]
       ELSE << [capability |-> g.capability,
                specs |-> PathsOf(sorted),
                duration |-> SumDuration(sorted)] >>

RECURSIVE splitLargeGroups(_, _)
splitLargeGroups(gs, maxGroupDuration) ==
    IF gs = <<>> THEN <<>>
    ELSE GroupItems(gs[1], maxGroupDuration) \o splitLargeGroups(Tail(gs), maxGroupDuration)

\* the Map after splitLargeGroups: specs.sort(...) sorts every group's array in place
SortedGroups(gs) ==
    [i \in 1..Len(gs) |-> [capability |-> gs[i].capability, specs |-> SortDesc(gs[i].specs)]]

\* mutant of standardItems: the standard specs are put together in one item
standardItems_OneItem(std) ==
    IF std = <<>> THEN <<>>
    ELSE << [capability |-> NoCapability, specs |-> PathsOf(std), duration |-> SumDuration(std)] >>

\* standard.map((spec) => ({ capability: null, specs: [spec.path], duration: spec.duration }))
standardItems(std) ==
    [i \in 1..Len(std) |->
        [capability |-> NoCapability, specs |-> <<std[i].path>>, duration |-> std[i].duration]]

\* ----------------------------------------------------------- assignToShards
EmptyBucket ==
    [specs |-> <<>>, testTime |-> 0, capabilities |-> {}, hasStandardSpecs |-> FALSE]

NewBuckets(n) == [i \in 1..n |-> EmptyBucket]

RECURSIVE LightestFrom_Greater(_, _, _)
\* mutant of LightestFrom: the comparison is turned round (b.testTime > min.testTime)
LightestFrom_Greater(bs, min, i) ==
    IF i > Len(bs) THEN min
    ELSE LightestFrom_Greater(bs, IF bs[i].testTime > bs[min].testTime THEN i ELSE min, i + 1)

RECURSIVE LightestFrom_LastMin(_, _, _)
\* mutant of LightestFrom: a later bucket with an equal testTime replaces the minimum (<=)
LightestFrom_LastMin(bs, min, i) ==
    IF i > Len(bs) THEN min
    ELSE LightestFrom_LastMin(bs, IF bs[i].testTime <= bs[min].testTime THEN i ELSE min, i + 1)

RECURSIVE LightestFrom(_, _, _)
\* buckets.reduce((min, b) => (b.testTime < min.testTime ? b : min)), as an index
LightestFrom(bs, min, i) ==
    IF i > Len(bs) THEN min
    ELSE LightestFrom(bs, IF bs[i].testTime < bs[min].testTime THEN i ELSE min, i + 1)

\* mutant of Lightest: the last bucket is always taken
Lightest_Last(bs) == Len(bs)

\* mutant of Lightest: the first bucket is always taken
Lightest_First(bs) == 1

Lightest(bs) == LightestFrom(bs, 1, 2)

\* mutant of AddItem: lightest.specs = item.specs instead of push
AddItem_Overwrite(b, item) ==
    [specs |-> item.specs,
     testTime |-> b.testTime + item.duration,
     capabilities |-> IF Truthy(item.capability)
                      THEN b.capabilities \cup {item.capability}
                      ELSE b.capabilities,
     hasStandardSpecs |-> IF Truthy(item.capability) THEN b.hasStandardSpecs ELSE TRUE]

\* mutant of AddItem: lightest.testTime = item.duration instead of +=
AddItem_TimeAssigned(b, item) ==
    [specs |-> b.specs \o item.specs,
     testTime |-> item.duration,
     capabilities |-> IF Truthy(item.capability)
                      THEN b.capabilities \cup {item.capability}
                      ELSE b.capabilities,
     hasStandardSpecs |-> IF Truthy(item.capability) THEN b.hasStandardSpecs ELSE TRUE]

\* the body of `for (const item of allItems)` applied to the bucket it picks
AddItem(b, item) ==
    [specs |-> b.specs \o item.specs,
     testTime |-> b.testTime + item.duration,
     capabilities |-> IF Truthy(item.capability)
                      THEN b.capabilities \cup {item.capability}
                      ELSE b.capabilities,
     hasStandardSpecs |-> IF Truthy(item.capability) THEN b.hasStandardSpecs ELSE TRUE]

PlaceItem(bs, item) == [bs EXCEPT ![Lightest(bs)] = AddItem(@, item)]

\* ---------------------------------------------------------------- finalize
RECURSIVE SortAsc(_)
\* [...b.capabilities].sort()
SortAsc(S) ==
    IF S = {} THEN <<>>
    ELSE LET m == CHOOSE x \in S : \A y \in S : x <= y
         IN <<m>> \o SortAsc(S \ {m})

\* b.capabilities.size + (b.hasStandardSpecs ? 1 : 0)
FixtureCount(b) == Cardinality(b.capabilities) + (IF b.hasStandardSpecs THEN 1 ELSE 0)

\* mutant of HasSpecs: the filter keeps every bucket
HasSpecs_Always(b) == Len(b.specs) >= 0

HasSpecs(b) == Len(b.specs) > 0

\* mutant of ToShards: shard: i instead of i + 1
ToShards_ZeroIndexed(bs) ==
    LET kept == SelectSeq(bs, HasSpecs)
    IN [i \in 1..Len(kept) |->
           [shard |-> i - 1,
            specs |-> kept[i].specs,
            testTime |-> kept[i].testTime,
            capabilities |-> SortAsc(kept[i].capabilities),
            fixtureCount |-> FixtureCount(kept[i])]]

\* mutant of ToShards: the buckets are mapped without the filter
ToShards_NoFilter(bs) ==
    [i \in 1..Len(bs) |->
        [shard |-> i,
         specs |-> bs[i].specs,
         testTime |-> bs[i].testTime,
         capabilities |-> SortAsc(bs[i].capabilities),
         fixtureCount |-> FixtureCount(bs[i])]]

\* buckets.filter((b) => b.specs.length > 0).map((b, i) => ({ shard: i + 1, ... }))
ToShards(bs) ==
    LET kept == SelectSeq(bs, HasSpecs)
    IN [i \in 1..Len(kept) |->
           [shard |-> i,
            specs |-> kept[i].specs,
            testTime |-> kept[i].testTime,
            capabilities |-> SortAsc(kept[i].capabilities),
            fixtureCount |-> FixtureCount(kept[i])]]

\* ======================================================================
\* The discovery analyzer (test-discovery-analyzer.ts)
\* ======================================================================
\* ------------------------------------------------------------- value model
\* A tag is the text '@' ns name.  ns = CapabilityNs is the text 'capability:' (the tag
\* starts with the default capabilityPrefix '@capability:'), ns = PlainNs is no text, the
\* tag being '@' name.  A token with ns = NoTag is title text that TAG_PATTERN leaves out.
CapabilityNs == 1
PlainNs == 0
NoTag == -1

Word == [ns |-> NoTag, name |-> 0]     \* some words of a title
TagA == [ns |-> CapabilityNs, name |-> 1]   \* '@capability:a'
TagB == [ns |-> CapabilityNs, name |-> 2]   \* '@capability:b'
TagW == [ns |-> PlainNs, name |-> 1]        \* '@wip'

\* tag.startsWith(prefix), the prefix being '@' and the text of a namespace
StartsWith(tag, prefix) == tag.ns = prefix

\* tag.slice(prefix.length) of a tag that starts with the prefix
SliceAfter(tag, prefix) == tag.name

\* [...title.matchAll(TAG_PATTERN)].map((m) => m[0])
IsTagToken(token) == token.ns # NoTag

parseTags(title) == SelectSeq(title, IsTagToken)

\* ------------------------------------------------------------ syntax trees
\* a call expression: the text of its callee, the kind of its first argument, the
\* tokens of that argument when it is a literal, and the kind of its last argument
Call(callee, first, title, lastArg) ==
    [kind |-> "call", callee |-> callee, first |-> first, title |-> title, lastArg |-> lastArg]

\* a block that is not the body of a call's last argument (if, for, bare braces)
PlainBlock ==
    [kind |-> "block", callee |-> "", first |-> "none", title |-> <<>>, lastArg |-> "none"]

\* the last argument is an inline function whose body is a Block
HasBodyBlock(node) ==
    node.kind = "call" /\ node.lastArg \in {"arrowBlock", "function"}

\* the node opens a Block: a plain block, or the body of the call's last argument
OpensBlock(node) == node.kind = "block" \/ HasBodyBlock(node)

RECURSIVE BlockAncestors(_, _)
\* the Block ancestors of node i, nearest first (getFirstAncestorByKind(Block), repeated)
BlockAncestors(file, i) ==
    LET p == file.parent[i]
    IN IF p = 0 THEN <<>>
       ELSE IF OpensBlock(file.nodes[p]) THEN <<p>> \o BlockAncestors(file, p)
       ELSE BlockAncestors(file, p)

\* file.getDescendantsOfKind(SyntaxKind.CallExpression), as node indices in document order
CallNodes(file) ==
    SelectSeq([i \in 1..Len(file.nodes) |-> i], LAMBDA i : file.nodes[i].kind = "call")

\* ------------------------------------------------------------ extractTitle
NoTitle == [found |-> FALSE, text |-> <<>>]

\* mutant of extractTitle: a first argument of any kind is taken as the title
extractTitle_AnyFirstArg(call) ==
    IF call.first = "none" THEN NoTitle
    ELSE [found |-> TRUE, text |-> call.title]

extractTitle(call) ==
    IF call.first = "none" THEN NoTitle
    ELSE IF call.first = "string" THEN [found |-> TRUE, text |-> call.title]
    ELSE IF call.first = "template" THEN [found |-> TRUE, text |-> call.title]
    ELSE NoTitle

\* ------------------------------------------------------------ parseTestCall
\* tags.some((tag) => skipTags.includes(tag))
SkippedByTag(tags, skipTags) ==
    \E i \in 1..Len(tags) : \E j \in 1..Len(skipTags) : tags[i] = skipTags[j]

\* the TestCallInfo of a call, as a list of one element; the empty list is null
parseTestCall(call, skipTags) ==
    LET isTest == call.callee = "test" \/ call.callee = "test.only"
        isDescribe == call.callee = "test.describe"
        isFixme == call.callee = "test.fixme"
        isSkip == call.callee = "test.skip"
        title == extractTitle(call)
        tags == parseTags(title.text)
    IN IF ~isTest /\ ~isDescribe /\ ~isFixme /\ ~isSkip THEN <<>>
       ELSE IF ~title.found THEN <<>>
       ELSE << [skipped |-> (isFixme \/ isSkip) \/ SkippedByTag(tags, skipTags),
                isDescribe |-> isDescribe,
                tags |-> tags] >>

\* ------------------------------------------------------- findSkippedScopes
\* no block: extractSkippedBlock returns null
NoBlock == 0

\* mutant of extractSkippedBlock: a call without arguments never marks a block
extractSkippedBlock_NoMarker(file, i) ==
    LET call == file.nodes[i]
    IN IF call.callee # "test.fixme" /\ call.callee # "test.skip" THEN NoBlock
       ELSE IF call.first = "none" THEN NoBlock
       ELSE IF call.lastArg = "arrowBlock" THEN i
       ELSE IF call.lastArg = "function" THEN i
       ELSE NoBlock

\* mutant of extractSkippedBlock: a call with arguments never marks a block
extractSkippedBlock_NoWrapper(file, i) ==
    LET call == file.nodes[i]
    IN IF call.callee # "test.fixme" /\ call.callee # "test.skip" THEN NoBlock
       ELSE IF call.first = "none"
            THEN IF BlockAncestors(file, i) = <<>> THEN NoBlock ELSE BlockAncestors(file, i)[1]
            ELSE NoBlock

\* the block a call marks as skipped: for a call without arguments the nearest Block
\* ancestor, otherwise the Block body of a last argument that is an arrow function or a
\* function expression
extractSkippedBlock(file, i) ==
    LET call == file.nodes[i]
    IN IF call.callee # "test.fixme" /\ call.callee # "test.skip" THEN NoBlock
       ELSE IF call.first = "none"
            THEN IF BlockAncestors(file, i) = <<>> THEN NoBlock ELSE BlockAncestors(file, i)[1]
            ELSE IF call.lastArg = "arrowBlock" THEN i
            ELSE IF call.lastArg = "function" THEN i
            ELSE NoBlock

findSkippedScopes(file) ==
    {extractSkippedBlock(file, CallNodes(file)[k]) : k \in 1..Len(CallNodes(file))} \ {NoBlock}

\* mutant of isInsideSkippedScope: only the nearest Block ancestor is looked up
isInsideSkippedScope_NearestOnly(file, i, skippedScopes) ==
    BlockAncestors(file, i) # <<>> /\ BlockAncestors(file, i)[1] \in skippedScopes

\* mutant of isInsideSkippedScope: the Block body of the call's own last argument is
\* looked up too
isInsideSkippedScope_OwnBody(file, i, skippedScopes) ==
    \/ (HasBodyBlock(file.nodes[i]) /\ i \in skippedScopes)
    \/ \E k \in 1..Len(BlockAncestors(file, i)) : BlockAncestors(file, i)[k] \in skippedScopes

\* the walk up the Block ancestors of a call
isInsideSkippedScope(file, i, skippedScopes) ==
    \E k \in 1..Len(BlockAncestors(file, i)) : BlockAncestors(file, i)[k] \in skippedScopes

\* -------------------------------------------------------- extractTestCalls
\* mutant of InfoOf: a skip tag of an enclosing call's title skips the call as well
InfoOf_InheritedTag(file, i, skipTags, skippedScopes) ==
    LET parsed == parseTestCall(file.nodes[i], skipTags)
        inherited == \E k \in 1..Len(BlockAncestors(file, i)) :
                         SkippedByTag(parseTags(file.nodes[BlockAncestors(file, i)[k]].title),
                                      skipTags)
    IN IF parsed = <<>> THEN <<>>
       ELSE << [node |-> i,
                skipped |-> \/ parsed[1].skipped
                            \/ isInsideSkippedScope(file, i, skippedScopes)
                            \/ inherited,
                isDescribe |-> parsed[1].isDescribe,
                tags |-> parsed[1].tags] >>

\* one iteration of the loop of extractTestCalls: the infos pushed for call node i (none
\* or one); `node` records which call the info was made from
InfoOf(file, i, skipTags, skippedScopes) ==
    LET parsed == parseTestCall(file.nodes[i], skipTags)
    IN IF parsed = <<>> THEN <<>>
       ELSE << [node |-> i,
                skipped |-> IF ~parsed[1].skipped /\ isInsideSkippedScope(file, i, skippedScopes)
                            THEN TRUE ELSE parsed[1].skipped,
                isDescribe |-> parsed[1].isDescribe,
                tags |-> parsed[1].tags] >>

RECURSIVE InfosFrom(_, _, _, _)
InfosFrom(file, nodeIndices, skipTags, skippedScopes) ==
    IF nodeIndices = <<>> THEN <<>>
    ELSE InfoOf(file, nodeIndices[1], skipTags, skippedScopes)
             \o InfosFrom(file, Tail(nodeIndices), skipTags, skippedScopes)

extractTestCalls(file, cfg) ==
    InfosFrom(file, CallNodes(file), cfg.skipTags, findSkippedScopes(file))

\* --------------------------------------------------------- analyzeTestFile
RECURSIVE AddAll(_, _)
\* allTags.add(tag) for the tags of a list: a Set keeps the order of first insertion
AddAll(allTags, tags) ==
    IF tags = <<>> THEN allTags
    ELSE AddAll(IF \E k \in 1..Len(allTags) : allTags[k] = tags[1]
                THEN allTags ELSE Append(allTags, tags[1]),
                Tail(tags))

RECURSIVE AllTags(_, _)
\* the Set allTags after the loop over the calls
AllTags(allTags, calls) ==
    IF calls = <<>> THEN allTags ELSE AllTags(AddAll(allTags, calls[1].tags), Tail(calls))

RECURSIVE CapabilitiesFrom_NoPrefixTest(_, _)
\* mutant of CapabilitiesFrom: the test tag.startsWith(prefix) is left out
CapabilitiesFrom_NoPrefixTest(tags, prefix) ==
    IF tags = <<>> THEN <<>>
    ELSE <<SliceAfter(tags[1], prefix)>> \o CapabilitiesFrom_NoPrefixTest(Tail(tags), prefix)

RECURSIVE CapabilitiesFrom(_, _)
\* the array `capabilities` before it is sorted
CapabilitiesFrom(tags, prefix) ==
    IF tags = <<>> THEN <<>>
    ELSE (IF StartsWith(tags[1], prefix) THEN <<SliceAfter(tags[1], prefix)>> ELSE <<>>)
             \o CapabilitiesFrom(Tail(tags), prefix)

RECURSIVE InsertAsc(_, _)
InsertAsc(x, sorted) ==
    IF sorted = <<>> THEN <<x>>
    ELSE IF x < sorted[1] THEN <<x>> \o sorted
    ELSE <<sorted[1]>> \o InsertAsc(x, Tail(sorted))

RECURSIVE SortNames(_)
\* capabilities.sort(): ascending by UTF-16 code units, which the numbers stand for
SortNames(names) ==
    IF names = <<>> THEN <<>> ELSE InsertAsc(names[1], SortNames(Tail(names)))

\* mutant of HasActiveTest: the test !call.isDescribe is left out
HasActiveTest_AnyUnskipped(calls) ==
    \E k \in 1..Len(calls) : ~calls[k].skipped

\* calls.some((call) => !call.skipped && !call.isDescribe)
HasActiveTest(calls) ==
    \E k \in 1..Len(calls) : ~calls[k].skipped /\ ~calls[k].isDescribe

\* the DiscoveredSpec of a file, as a list of one element; the empty list is null
analyzeTestFile(file, cfg) ==
    LET calls == extractTestCalls(file, cfg)
    IN IF Len(calls) = 0 THEN <<>>
       ELSE IF ~HasActiveTest(calls) THEN <<>>
       ELSE << [path |-> file.path,
                capabilities |->
                    SortNames(CapabilitiesFrom(AllTags(<<>>, calls), cfg.capabilityPrefix))] >>

\* ----------------------------------------------------------------- discover
RECURSIVE InsertByPath(_, _)
\* a.path.localeCompare(b.path): the paths are numbered in that order; the sort is stable
InsertByPath(x, sorted) ==
    IF sorted = <<>> THEN <<x>>
    ELSE IF x.path < sorted[1].path THEN <<x>> \o sorted
    ELSE <<sorted[1]>> \o InsertByPath(x, Tail(sorted))

\* mutant of SortByPath: the list is returned in the order of the pushes
SortByPath_Unsorted(xs) == xs

RECURSIVE SortByPath(_)
\* specs.sort((a, b) => a.path.localeCompare(b.path))
SortByPath(xs) ==
    IF xs = <<>> THEN <<>> ELSE InsertByPath(xs[Len(xs)], SortByPath(SubSeq(xs, 1, Len(xs) - 1)))

NoReport == [specs |-> <<>>, skipTags |-> <<>>]

\* the configuration when discover is not running: the defaults (skipTags [], prefix
\* '@capability:')
DefaultJanitorConfig == [skipTags |-> <<>>, capabilityPrefix |-> CapabilityNs]

\* ------------------------------------------------------------ the arguments
\* capabilities of a DiscoveredSpec: sorted and duplicate-free; here none, one name, or
\* two non-empty names (the empty name is taken only as a spec's single capability)
CapabilityLists ==
    {<<>>} \cup {<<c>> : c \in Capabilities}
           \cup {<<p[1], p[2]>> : p \in {q \in Capabilities \X Capabilities :
                                               EmptyName < q[1] /\ q[1] < q[2]}}

SpecLists ==
    UNION {{[i \in 1..n |-> [path |-> i, capabilities |-> c[i]]] : c \in [1..n -> CapabilityLists]}
            : n \in 0..MaxSpecs}

\* metrics maps with an entry for any subset of the paths
MetricsFor(n) == UNION {[S -> 0..MaxDuration] : S \in SUBSET (1..n)}

NoResult == [shards |-> <<>>, totalTestTime |-> 0]

Init ==
    /\ specs \in SpecLists
    /\ numShards \in 1..MaxShards
    /\ metrics \in MetricsFor(Len(specs))
    /\ config \in [defaultDuration : 0..MaxDefaultDuration,
                   maxGroupDuration : 1..MaxGroupDurationBound]
    /\ pc = "enrich"
    /\ enriched = <<>>
    /\ groups = <<>>
    /\ standard = <<>>
    /\ items = <<>>
    /\ buckets = <<>>
    /\ nextItem = 0
    /\ result = NoResult
    /\ files = <<>>
    /\ janitorConfig = DefaultJanitorConfig
    /\ dpc = "idle"
    /\ analysed = <<>>
    /\ found = <<>>
    /\ report = NoReport

\* ----------------------------------------------------- the steps of orchestrate
\* mutant of Enrich: the duration is written into the input objects (spec.duration = ...)
\* and the input array itself is returned
Enrich_InPlace ==
    /\ pc = "enrich"
    /\ enriched' = enrichWithDuration(specs, metrics, config.defaultDuration)
    /\ specs' = enriched'
    /\ pc' = "group"
    /\ UNCHANGED <<numShards, metrics, config, groups, standard, items,
                   buckets, nextItem, result>>
    /\ UNCHANGED discoverVars

\* const enriched = enrichWithDuration(specs, metrics, config.defaultDuration)
Enrich ==
    /\ pc = "enrich"
    /\ enriched' = enrichWithDuration(specs, metrics, config.defaultDuration)
    /\ pc' = "group"
    /\ UNCHANGED <<specs, numShards, metrics, config, groups, standard, items,
                   buckets, nextItem, result>>
    /\ UNCHANGED discoverVars

\* const { groups, standard } = groupByCapability(enriched)
GroupByCapability ==
    /\ pc = "group"
    /\ groups' = groupByCapability(enriched).groups
    /\ standard' = groupByCapability(enriched).standard
    /\ pc' = "split"
    /\ UNCHANGED <<specs, numShards, metrics, config, enriched, items, buckets,
                   nextItem, result>>
    /\ UNCHANGED discoverVars

\* capabilityItems, standardItems and the array [...capabilityItems, ...standardItems]
BuildItems ==
    /\ pc = "split"
    /\ items' = splitLargeGroups(groups, config.maxGroupDuration) \o standardItems(standard)
    /\ groups' = SortedGroups(groups)
    /\ pc' = "assign"
    /\ UNCHANGED <<specs, numShards, metrics, config, enriched, standard, buckets,
                   nextItem, result>>
    /\ UNCHANGED discoverVars

\* entry of assignToShards: the in-place sort of the items and the fresh buckets
StartAssign ==
    /\ pc = "assign"
    /\ items' = SortDesc(items)
    /\ buckets' = NewBuckets(numShards)
    /\ nextItem' = 1
    /\ pc' = "place"
    /\ UNCHANGED <<specs, numShards, metrics, config, enriched, groups, standard, result>>
    /\ UNCHANGED discoverVars

\* one iteration of the loop of assignToShards
Place ==
    /\ pc = "place"
    /\ nextItem <= Len(items)
    /\ buckets' = PlaceItem(buckets, items[nextItem])
    /\ nextItem' = nextItem + 1
    /\ UNCHANGED <<specs, numShards, metrics, config, pc, enriched, groups, standard,
                   items, result>>
    /\ UNCHANGED discoverVars

\* the loop is over: totalTestTime and the returned object
Finalize ==
    /\ pc = "place"
    /\ nextItem > Len(items)
    /\ result' = [shards |-> ToShards(buckets), totalTestTime |-> SumDuration(enriched)]
    /\ pc' = "done"
    /\ UNCHANGED <<specs, numShards, metrics, config, enriched, groups, standard,
                   items, buckets, nextItem>>
    /\ UNCHANGED discoverVars

Next == Enrich \/ GroupByCapability \/ BuildItems \/ StartAssign \/ Place \/ Finalize

Spec == Init /\ [][Next]_vars

\* ======================================================================
\* discover() as a state machine
\* ======================================================================
\* the call expressions and blocks the source files are built from
NodeForms ==
    { Call("test", "string", <<Word>>, "arrowBlock"),             \* test('t', async () => {})
      Call("test", "string", <<Word, TagW>>, "arrowBlock"),       \* test('t @wip', async () => {})
      Call("test.only", "template", <<TagB, Word, TagA>>, "function"),
                                  \* test.only(`@capability:b t @capability:a`, function () {})
      Call("test.describe", "string", <<TagW, TagA>>, "arrowBlock"),
                                  \* test.describe('@wip @capability:a', () => {})
      Call("test.fixme", "none", <<>>, "none"),                   \* test.fixme()
      Call("test.skip", "none", <<>>, "none"),                    \* test.skip()
      Call("test.fixme", "string", <<Word, TagB>>, "arrowBlock"),
                                  \* test.fixme('t @capability:b', async () => {})
      Call("test.skip", "template", <<Word>>, "function"),        \* test.skip(`t`, function () {})
      Call("test", "other", <<>>, "arrowBlock"),                  \* test(title, async () => {})
      Call("expect", "string", <<TagA>>, "arrowExpr"),            \* expect('@capability:a', () => x)
      PlainBlock }

\* a node that can have nodes inside it: a block, or a call that has arguments
CanContain(node) == node.kind = "block" \/ node.first # "none"

RECURSIVE IsAncestorOrSelf(_, _, _)
IsAncestorOrSelf(parent, a, i) ==
    a = i \/ (i # 0 /\ IsAncestorOrSelf(parent, a, parent[i]))

\* the parent vectors of the trees of n nodes numbered in document order; 0 is the file
ParentVectors(n) ==
    {parent \in [1..n -> 0..(n - 1)] :
        \A i \in 1..n : /\ parent[i] < i
                        /\ i > 1 => IsAncestorOrSelf(parent, parent[i], i - 1)}

\* the parent vector fits the nodes: only a node that can contain nodes is a parent
WellFormed(nodes, parent) ==
    \A i \in 1..Len(nodes) : parent[i] # 0 => CanContain(nodes[parent[i]])

\* the orders in which getSourceFiles can return n files
PathOrders(n) == {ps \in [1..n -> 1..n] : \A i, j \in 1..n : ps[i] = ps[j] => i = j}

\* a project of one source file of up to MaxNodes nodes
OneFile(fs) ==
    \E n \in 0..MaxNodes :
        \E nodes \in [1..n -> NodeForms] :
            \E parent \in ParentVectors(n) :
                /\ WellFormed(nodes, parent)
                /\ fs = << [path |-> 1, nodes |-> nodes, parent |-> parent] >>

\* a project of two to MaxFiles source files of at most one node each, in any order
SmallFiles(fs) ==
    \E n \in 2..MaxFiles :
        \E ps \in PathOrders(n) :
            \E shape \in [1..n -> {<<>>} \cup {<<form>> : form \in NodeForms}] :
                fs = [i \in 1..n |->
                        [path |-> ps[i], nodes |-> shape[i],
                         parent |-> [k \in 1..Len(shape[i]) |-> 0]]]

SkipTagLists == {<<>>, <<TagW>>}

InitDiscover ==
    /\ (OneFile(files) \/ SmallFiles(files))
    /\ janitorConfig \in [skipTags : SkipTagLists, capabilityPrefix : {CapabilityNs}]
    /\ dpc = "files"
    /\ analysed = <<>>
    /\ found = <<>>
    /\ report = NoReport
    /\ specs = <<>>
    /\ numShards = 1
    /\ metrics = <<>>
    /\ config = [defaultDuration |-> 1, maxGroupDuration |-> 1]
    /\ pc = "idle"
    /\ enriched = <<>>
    /\ groups = <<>>
    /\ standard = <<>>
    /\ items = <<>>
    /\ buckets = <<>>
    /\ nextItem = 0
    /\ result = NoResult

\* a project of two source files of up to MaxSetNodes nodes each, in either order
TwoFiles(fs) ==
    \E ps \in PathOrders(2) :
        \E n1, n2 \in 0..MaxSetNodes :
            \E nodes1 \in [1..n1 -> NodeForms], nodes2 \in [1..n2 -> NodeForms] :
                \E parent1 \in ParentVectors(n1), parent2 \in ParentVectors(n2) :
                    /\ WellFormed(nodes1, parent1)
                    /\ WellFormed(nodes2, parent2)
                    /\ fs = << [path |-> ps[1], nodes |-> nodes1, parent |-> parent1],
                               [path |-> ps[2], nodes |-> nodes2, parent |-> parent2] >>

\* discover() over two files that have trees of their own
InitDiscoverSets ==
    /\ TwoFiles(files)
    /\ janitorConfig \in [skipTags : SkipTagLists, capabilityPrefix : {CapabilityNs}]
    /\ dpc = "files"
    /\ analysed = <<>>
    /\ found = <<>>
    /\ report = NoReport
    /\ specs = <<>>
    /\ numShards = 1
    /\ metrics = <<>>
    /\ config = [defaultDuration |-> 1, maxGroupDuration |-> 1]
    /\ pc = "idle"
    /\ enriched = <<>>
    /\ groups = <<>>
    /\ standard = <<>>
    /\ items = <<>>
    /\ buckets = <<>>
    /\ nextItem = 0
    /\ result = NoResult

\* mutant of AnalyzeFile: the Set of skipped scopes is kept from file to file, so the
\* block starts of the files analysed before are looked up as well
AnalyzeFile_SharedScopes ==
    /\ dpc = "files"
    /\ Len(analysed) < Len(files)
    /\ LET file == files[Len(analysed) + 1]
           scopes == findSkippedScopes(file)
                         \cup UNION {analysed[k].skippedScopes : k \in 1..Len(analysed)}
           calls == InfosFrom(file, CallNodes(file), janitorConfig.skipTags, scopes)
           spec == IF Len(calls) = 0 \/ ~HasActiveTest(calls) THEN <<>>
                   ELSE << [path |-> file.path,
                            capabilities |->
                                SortNames(CapabilitiesFrom(AllTags(<<>>, calls),
                                                           janitorConfig.capabilityPrefix))] >>
       IN /\ found' = found \o spec
          /\ analysed' = Append(analysed,
                                [skippedScopes |-> scopes, calls |-> calls, spec |-> spec])
    /\ UNCHANGED <<files, janitorConfig, dpc, report>>
    /\ UNCHANGED orchestrateVars

\* one iteration of `for (const file of files)`: analyzeTestFile and the push
AnalyzeFile ==
    /\ dpc = "files"
    /\ Len(analysed) < Len(files)
    /\ LET file == files[Len(analysed) + 1]
           spec == analyzeTestFile(file, janitorConfig)
       IN /\ found' = found \o spec
          /\ analysed' = Append(analysed,
                                [skippedScopes |-> findSkippedScopes(file),
                                 calls |-> extractTestCalls(file, janitorConfig),
                                 spec |-> spec])
    /\ UNCHANGED <<files, janitorConfig, dpc, report>>
    /\ UNCHANGED orchestrateVars

\* the loop is over: the sort and the returned report
Report ==
    /\ dpc = "files"
    /\ Len(analysed) = Len(files)
    /\ report' = [specs |-> SortByPath(found), skipTags |-> janitorConfig.skipTags]
    /\ found' = SortByPath(found)
    /\ dpc' = "done"
    /\ UNCHANGED <<files, janitorConfig, analysed>>
    /\ UNCHANGED orchestrateVars

NextDiscover == AnalyzeFile \/ Report

SpecDiscover == InitDiscover /\ [][NextDiscover]_vars

SpecDiscoverSets == InitDiscoverSets /\ [][NextDiscover]_vars

\* ======================================================================
\* Properties of orchestrate
\* ======================================================================
Done == pc = "done"

Range(xs) == {xs[i] : i \in 1..Len(xs)}

Min(a, b) == IF a < b THEN a ELSE b

InputPaths == {specs[i].path : i \in 1..Len(specs)}

\* the places (shard index, position) of the returned shards' specs lists
ShardPlaces ==
    UNION {{<<k, j>> : j \in 1..Len(result.shards[k].specs)} : k \in 1..Len(result.shards)}

PlacesOf(path) == {pl \in ShardPlaces : result.shards[pl[1]].specs[pl[2]] = path}

RECURSIVE SumTestTime(_)
SumTestTime(shards) ==
    IF shards = <<>> THEN 0 ELSE shards[1].testTime + SumTestTime(Tail(shards))

\* C1: at the return of orchestrate (numShards >= 1, distinct paths) every input spec
\* path occurs at exactly one place of exactly one returned shard's specs list, and
\* every path listed in a shard is an input path.
C1_EverySpecInExactlyOneShard ==
    Done =>
        /\ \A p \in InputPaths : Cardinality(PlacesOf(p)) = 1
        /\ \A pl \in ShardPlaces : result.shards[pl[1]].specs[pl[2]] \in InputPaths

\* C1 witness: three specs returned on more than one shard, one shard holding two of them
C1_Witness ==
    /\ Done
    /\ Len(specs) = 3
    /\ Len(result.shards) = 2
    /\ \E k \in 1..Len(result.shards) : Len(result.shards[k].specs) = 2

\* C2: at the return the testTime of the returned shards sums to totalTestTime, and
\* totalTestTime is the sum of the durations the enrich step attached to the input specs.
C2_TestTimeConserved ==
    Done =>
        /\ SumTestTime(result.shards) = result.totalTestTime
        /\ result.totalTestTime = SumDuration(enriched)
        /\ Len(enriched) = Len(specs)

\* C2 witness: a bucket received two items, and another bucket was dropped as empty
C2_Witness ==
    /\ Done
    /\ result.totalTestTime > 0
    /\ Len(items) = 3
    /\ numShards = 3
    /\ Len(result.shards) = 2

\* C3: the shard numbers of the returned shards, in list order, are 1, 2, ..., K,
\* and K <= numShards.
C3_ShardNumbersDense ==
    Done =>
        /\ \A k \in 1..Len(result.shards) : result.shards[k].shard = k
        /\ Len(result.shards) <= numShards

\* C3 witness: a result of three shards
C3_Witness == Done /\ Len(result.shards) = 3

\* C4: every returned shard has at least one spec; a bucket that received no packing
\* item is not in the output.
C4_NoEmptyShard ==
    Done =>
        /\ \A k \in 1..Len(result.shards) : Len(result.shards[k].specs) >= 1
        /\ Len(result.shards) = Cardinality({b \in 1..Len(buckets) : buckets[b].specs # <<>>})

\* C4 witness: more buckets than packing items, so a bucket stayed empty and was dropped
C4_Witness ==
    /\ Done
    /\ Len(items) = 2
    /\ numShards = 3
    /\ \E b \in 1..Len(buckets) : buckets[b].specs = <<>>
    /\ Len(result.shards) = 2

\* the positions of the input specs filed under capability c (their first capability)
GroupMembers(c) ==
    {i \in 1..Len(specs) : specs[i].capabilities # <<>> /\ specs[i].capabilities[1] = c}

RECURSIVE SumEnriched(_)
\* total enriched duration of the specs at the positions in S
SumEnriched(S) ==
    IF S = {} THEN 0
    ELSE LET i == CHOOSE x \in S : TRUE IN enriched[i].duration + SumEnriched(S \ {i})

\* C6: capability cohesion: when the specs whose first capability is c have a total
\* duration of at most maxGroupDuration, one returned shard lists all of them.
C6_CapabilityCohesion ==
    Done =>
        \A c \in Capabilities :
            (GroupMembers(c) # {} /\ SumEnriched(GroupMembers(c)) <= config.maxGroupDuration)
                => \E k \in 1..Len(result.shards) :
                       \A i \in GroupMembers(c) : specs[i].path \in Range(result.shards[k].specs)

\* C6 witness: a group of two specs within maxGroupDuration, returned with another shard
C6_Witness ==
    /\ Done
    /\ Len(result.shards) >= 2
    /\ \E c \in Capabilities :
          /\ Cardinality(GroupMembers(c)) = 2
          /\ SumEnriched(GroupMembers(c)) <= config.maxGroupDuration
          /\ SumEnriched(GroupMembers(c)) > 0

\* C7: the enrich step gives a spec the duration metrics[path] whenever the metrics map
\* has an entry for its path, whatever its value (0 included), and defaultDuration only
\* when the map has no entry.
C7_EnrichUsesEveryMetricsEntry ==
    pc # "enrich" =>
        \A i \in 1..Len(specs) :
            enriched[i].duration =
                IF specs[i].path \in DOMAIN metrics
                THEN metrics[specs[i].path]
                ELSE config.defaultDuration

\* whether the shard lists a spec that has no capability at all
HasCapabilityLessSpec(shard) ==
    \E i \in 1..Len(specs) : specs[i].capabilities = <<>> /\ specs[i].path \in Range(shard.specs)

\* C8: for every returned shard, fixtureCount is the number of distinct capabilities in
\* the shard's capabilities list, plus 1 exactly when the shard lists a capability-less spec.
C8_FixtureCount ==
    Done =>
        \A k \in 1..Len(result.shards) :
            result.shards[k].fixtureCount =
                Cardinality(Range(result.shards[k].capabilities))
                    + (IF HasCapabilityLessSpec(result.shards[k]) THEN 1 ELSE 0)

\* C9: with an empty spec list orchestrate returns zero shards and totalTestTime 0 for
\* every numShards >= 1, metrics and config, and no step of it fails.
C9_EmptyInput ==
    specs = <<>> =>
        /\ Done => (result.shards = <<>> /\ result.totalTestTime = 0)
        /\ ~Done => ENABLED Next

\* C9 witness: the call with no specs has returned, with several shards requested
C9_Witness == Done /\ specs = <<>> /\ numShards = 3 /\ config.defaultDuration > 0

AllDurationsPositive == \A i \in 1..Len(enriched) : enriched[i].duration > 0

\* C10: when every spec duration is positive the number of returned shards is
\* min(numShards, number of packing items); with numShards at least the number of
\* packing items each item is alone on a shard of its own.
C10_ShardCount ==
    (Done /\ AllDurationsPositive) =>
        /\ Len(result.shards) = Min(numShards, Len(items))
        /\ numShards >= Len(items) =>
               /\ \A j \in 1..Len(items) :
                      \E k \in 1..Len(result.shards) : result.shards[k].specs = items[j].specs
               /\ \A k \in 1..Len(result.shards) :
                      \E j \in 1..Len(items) : result.shards[k].specs = items[j].specs

\* C10 witness: two capability groups and room for both
C10_Witness ==
    /\ Done
    /\ AllDurationsPositive
    /\ Len(specs) = 3
    /\ Len(items) = 2
    /\ numShards = 3
    /\ \A j \in 1..Len(items) : Truthy(items[j].capability)

\* C10 witness, the other case: fewer shards than packing items
C10_WitnessFewerShards ==
    Done /\ AllDurationsPositive /\ Len(items) = 3 /\ numShards = 2 /\ Len(result.shards) = 2

\* the packing items are built once the split step has run
ItemsBuilt == pc \in {"assign", "place", "done"}

\* the positions in items of the packing items tagged with capability c
ItemsOf(c) == {j \in 1..Len(items) : items[j].capability = c}

\* the places (item index, position) of the specs lists of the items tagged with c
ItemPlaces(c) == UNION {{<<j, k>> : k \in 1..Len(items[j].specs)} : j \in ItemsOf(c)}

\* C11: a capability group yields exactly one packing item when its total duration is
\* at most maxGroupDuration or it has a single member; otherwise it yields two or more
\* packing items; in both cases every item is non-empty and tagged with the group's
\* capability, and the items together hold each member exactly once and nothing else.
C11_GroupItems ==
    ItemsBuilt =>
        \A c \in Capabilities :
            LET members == GroupMembers(c)
                single == \/ SumEnriched(members) <= config.maxGroupDuration
                          \/ Cardinality(members) = 1
            IN /\ members = {} => ItemsOf(c) = {}
               /\ members # {} =>
                     /\ single => Cardinality(ItemsOf(c)) = 1
                     /\ ~single => Cardinality(ItemsOf(c)) >= 2
                     /\ \A j \in ItemsOf(c) : Len(items[j].specs) > 0
                     /\ \A i \in members :
                            Cardinality({pl \in ItemPlaces(c) :
                                            items[pl[1]].specs[pl[2]] = specs[i].path}) = 1
                     /\ \A pl \in ItemPlaces(c) :
                            \E i \in members : items[pl[1]].specs[pl[2]] = specs[i].path

\* C11 witness: a group of three members above maxGroupDuration, split into two items
C11_Witness ==
    /\ ItemsBuilt
    /\ \E c \in Capabilities :
          /\ Cardinality(GroupMembers(c)) = 3
          /\ SumEnriched(GroupMembers(c)) > config.maxGroupDuration
          /\ Cardinality(ItemsOf(c)) = 2

\* C11 witness, the other case: one member above maxGroupDuration, kept as one item
C11_WitnessSingleMember ==
    /\ ItemsBuilt
    /\ \E c \in Capabilities :
          /\ Cardinality(GroupMembers(c)) = 1
          /\ SumEnriched(GroupMembers(c)) > config.maxGroupDuration
          /\ Cardinality(ItemsOf(c)) = 1

\* a step of the placing loop: the item at nextItem is put on a bucket
PlaceStep == pc = "place" /\ nextItem <= Len(items) /\ nextItem' = nextItem + 1

\* bucket b has the lowest testTime of all buckets, and is the first bucket that has it
IsFirstLightest(b) ==
    /\ \A k \in 1..Len(buckets) : buckets[b].testTime <= buckets[k].testTime
    /\ \A k \in 1..(b - 1) : buckets[k].testTime > buckets[b].testTime

\* C12: during bin-packing the items are placed one at a time, in non-increasing order
\* of duration; each is put on the bucket whose accumulated testTime is the lowest of
\* all numShards buckets at that moment, the smallest bucket index winning a tie, and
\* no other bucket changes.
C12_PlacementOrder ==
    [][PlaceStep =>
          /\ Len(buckets) = numShards
          /\ nextItem > 1 => items[nextItem - 1].duration >= items[nextItem].duration
          /\ \E b \in 1..numShards :
                /\ IsFirstLightest(b)
                /\ buckets'[b].specs = buckets[b].specs \o items[nextItem].specs
                /\ buckets'[b].testTime = buckets[b].testTime + items[nextItem].duration
                /\ \A k \in (1..numShards) \ {b} : buckets'[k] = buckets[k]]_vars

\* C12 witness: three items of durations 2, 1, 1 on three buckets; the second item went
\* to bucket 2 (buckets 2 and 3 tied at 0), and the third is about to go to bucket 3
C12_Witness ==
    /\ pc = "place"
    /\ numShards = 3
    /\ Len(items) = 3
    /\ nextItem = 3
    /\ items[1].duration > items[2].duration
    /\ buckets[1].testTime = items[1].duration
    /\ buckets[2].testTime = items[2].duration
    /\ buckets[3].testTime = 0
    /\ items[3].duration > 0

\* the first capabilities of the capability-bearing input specs listed on a shard
FirstCapabilitiesOn(shard) ==
    {specs[i].capabilities[1] :
        i \in {j \in 1..Len(specs) : /\ specs[j].capabilities # <<>>
                                     /\ specs[j].path \in Range(shard.specs)}}

\* C20: every returned shard's capabilities list is the ascending, duplicate-free list
\* of the first capabilities of the capability-bearing specs on that shard; a second or
\* later capability of a spec is never added.
C20_ShardCapabilities ==
    Done =>
        \A k \in 1..Len(result.shards) :
            result.shards[k].capabilities = SortAsc(FirstCapabilitiesOn(result.shards[k]))

\* C20 restricted to the inputs in which no spec's first capability is the empty name
C20_ShardCapabilitiesNonEmptyNames ==
    (Done /\ \A i \in 1..Len(specs) :
                 specs[i].capabilities # <<>> => Truthy(specs[i].capabilities[1]))
        => \A k \in 1..Len(result.shards) :
               result.shards[k].capabilities = SortAsc(FirstCapabilitiesOn(result.shards[k]))

\* ======================================================================
\* Properties of discover
\* ======================================================================
Reported == dpc = "done"

\* the files analysed so far, by their position in files
Analysed == 1..Len(analysed)

NodesOf(f) == 1..Len(files[f].nodes)

\* node i of file f is a call the analyzer recognizes: one of the five callees, with a
\* first argument that is a string literal or a template literal without substitutions
Recognized(f, i) ==
    LET node == files[f].nodes[i]
    IN /\ node.kind = "call"
       /\ node.callee \in {"test", "test.only", "test.describe", "test.fixme", "test.skip"}
       /\ node.first \in {"string", "template"}

\* a recognized call that is not a grouping call and not a fixme/skip call
IsTestCall(f, i) == Recognized(f, i) /\ files[f].nodes[i].callee \in {"test", "test.only"}

\* the positions in the TestCallInfo[] of file f of the infos made from node i
InfosOfNode(f, i) == {k \in 1..Len(analysed[f].calls) : analysed[f].calls[k].node = i}

\* node i of file f was given a TestCallInfo that says skipped / not skipped
MarkedSkipped(f, i) == \E k \in InfosOfNode(f, i) : analysed[f].calls[k].skipped
MarkedActive(f, i) == \E k \in InfosOfNode(f, i) : ~analysed[f].calls[k].skipped

YieldsSpec(f) == analysed[f].spec # <<>>

\* C13: a file yields a DiscoveredSpec exactly when it contains a recognized call of
\* test or test.only (literal title) that is not marked skipped; with no recognized
\* call, only grouping calls, or every non-grouping call skipped it yields none.
C13_SpecIffActiveTest ==
    \A f \in Analysed :
        YieldsSpec(f) <=> \E i \in NodesOf(f) : IsTestCall(f, i) /\ MarkedActive(f, i)

\* C13 witness: a file with a skipped test and an active test is reported
C13_Witness ==
    /\ Reported
    /\ Len(files) = 1
    /\ Len(report.specs) = 1
    /\ \E i, j \in NodesOf(1) :
          /\ IsTestCall(1, i) /\ MarkedSkipped(1, i)
          /\ IsTestCall(1, j) /\ MarkedActive(1, j)

\* C13 witness, the other side: a file of an unskipped grouping call and skipped tests only
C13_WitnessNoSpec ==
    /\ Reported
    /\ Len(files) = 1
    /\ report.specs = <<>>
    /\ \E i, j \in NodesOf(1) :
          /\ files[1].nodes[i].callee = "test.describe" /\ MarkedActive(1, i)
          /\ IsTestCall(1, j) /\ MarkedSkipped(1, j)
    /\ \A j \in NodesOf(1) : IsTestCall(1, j) => MarkedSkipped(1, j)

\* block b of file f (a node that opens a Block) encloses node i
Encloses(f, b, i) ==
    /\ b \in NodesOf(f)
    /\ OpensBlock(files[f].nodes[b])
    /\ IsAncestorOrSelf(files[f].parent, b, files[f].parent[i])

\* one of the title tags of node i is in skipTags
HasSkipTag(f, i) ==
    \E t \in Range(files[f].nodes[i].title) :
        IsTagToken(t) /\ t \in Range(janitorConfig.skipTags)

\* C14: every recognized call gets one TestCallInfo, and it is marked skipped exactly
\* when it is a test.fixme/test.skip call, or one of its own title tags is in skipTags,
\* or one of its enclosing blocks is in the set of skipped scopes.
C14_SkippedIff ==
    \A f \in Analysed :
        \A i \in NodesOf(f) :
            Recognized(f, i) =>
                /\ Cardinality(InfosOfNode(f, i)) = 1
                /\ MarkedSkipped(f, i) <=>
                       \/ files[f].nodes[i].callee \in {"test.fixme", "test.skip"}
                       \/ HasSkipTag(f, i)
                       \/ \E b \in analysed[f].skippedScopes : Encloses(f, b, i)

\* C14 witness: a test without a skip tag, skipped because a block that is not its
\* nearest one is a skipped scope; and in the same file a call skipped by its tag only
C14_Witness ==
    /\ Reported
    /\ Len(files) = 1
    /\ \E i, j \in NodesOf(1) :
          /\ IsTestCall(1, i) /\ ~HasSkipTag(1, i) /\ MarkedSkipped(1, i)
          /\ files[1].parent[i] # 0
          /\ OpensBlock(files[1].nodes[files[1].parent[i]])
          /\ files[1].parent[i] \notin analysed[1].skippedScopes
          /\ IsTestCall(1, j) /\ HasSkipTag(1, j) /\ MarkedSkipped(1, j)
          /\ \A b \in analysed[1].skippedScopes : ~Encloses(1, b, j)

\* the blocks of file f that enclose node i
EnclosingBlocks(f, i) == {b \in NodesOf(f) : Encloses(f, b, i)}

\* the innermost of them (an enclosing block comes later in the file than the blocks
\* that enclose it)
NearestBlock(f, i) == CHOOSE b \in EnclosingBlocks(f, i) : \A c \in EnclosingBlocks(f, i) : c <= b

\* node m of file f is test.fixme() or test.skip() without arguments, inside a block
IsMarker(f, m) ==
    /\ files[f].nodes[m].kind = "call"
    /\ files[f].nodes[m].callee \in {"test.fixme", "test.skip"}
    /\ files[f].nodes[m].first = "none"
    /\ EnclosingBlocks(f, m) # {}

\* C15: a test.fixme() or test.skip() without arguments that has an enclosing block
\* puts its nearest enclosing block in the set of skipped scopes, and every recognized
\* call inside that block, at any depth, before or after the marker and whatever its own
\* tags, is marked skipped.
C15_MarkerSkipsBlock ==
    \A f \in Analysed :
        \A m \in NodesOf(f) :
            IsMarker(f, m) =>
                /\ NearestBlock(f, m) \in analysed[f].skippedScopes
                /\ \A i \in NodesOf(f) :
                       (Recognized(f, i) /\ Encloses(f, NearestBlock(f, m), i))
                           => MarkedSkipped(f, i)

\* C15 witness: the marker is the last node of its block; an untagged test that comes
\* before it, one block further in, is marked skipped
C15_Witness ==
    /\ Reported
    /\ Len(files) = 1
    /\ \E m, i \in NodesOf(1) :
          /\ IsMarker(1, m)
          /\ i < m
          /\ files[1].nodes[i] = Call("test", "string", <<Word>>, "arrowBlock")
          /\ Encloses(1, NearestBlock(1, m), i)
          /\ NearestBlock(1, i) # NearestBlock(1, m)
          /\ MarkedSkipped(1, i)
    /\ report.specs = <<>>

\* node w of file f is a test.fixme or test.skip call with a literal title whose last
\* argument is an inline function with a Block body
IsWrapper(f, w) ==
    /\ Recognized(f, w)
    /\ files[f].nodes[w].callee \in {"test.fixme", "test.skip"}
    /\ files[f].nodes[w].lastArg \in {"arrowBlock", "function"}

\* C16: the body block of a test.fixme/test.skip wrapper (title and a final inline
\* function) is in the set of skipped scopes and every recognized call inside it is
\* marked skipped; a file all of whose tests are inside such wrappers yields no spec.
C16_WrapperSkipsBody ==
    \A f \in Analysed :
        /\ \A w \in NodesOf(f) :
               IsWrapper(f, w) =>
                   /\ w \in analysed[f].skippedScopes
                   /\ \A i \in NodesOf(f) :
                          (Recognized(f, i) /\ Encloses(f, w, i)) => MarkedSkipped(f, i)
        /\ (\A i \in NodesOf(f) :
                IsTestCall(f, i) => \E w \in NodesOf(f) : IsWrapper(f, w) /\ Encloses(f, w, i))
               => ~YieldsSpec(f)

\* C16 witness: the only test of the file is untagged and inside a wrapper whose last
\* argument is a function expression, under a describe; no marker is in the file
C16_Witness ==
    /\ Reported
    /\ Len(files) = 1
    /\ report.specs = <<>>
    /\ \A m \in NodesOf(1) : ~IsMarker(1, m)
    /\ \E w, i \in NodesOf(1) :
          /\ IsWrapper(1, w)
          /\ files[1].nodes[w].lastArg = "function"
          /\ files[1].nodes[i] = Call("test", "string", <<Word>>, "arrowBlock")
          /\ Encloses(1, w, i)
          /\ MarkedSkipped(1, i)

\* the tags of the titles of the recognized calls of file f
RecognizedTags(f) ==
    UNION {{t \in Range(files[f].nodes[i].title) : IsTagToken(t)}
              : i \in {j \in NodesOf(f) : Recognized(f, j)}}

\* the names that follow the capability prefix in those tags
PrefixedNames(f) ==
    {t.name : t \in {u \in RecognizedTags(f) : u.ns = janitorConfig.capabilityPrefix}}

\* C17: the capabilities of a discovered spec are the tags of the titles of all the
\* recognized calls of the file (grouping and skipped calls included) that start with
\* the capability prefix, the prefix removed, in ascending order without duplicates; a
\* tag that does not start with the prefix contributes nothing.
C17_Capabilities ==
    \A f \in Analysed :
        YieldsSpec(f) => analysed[f].spec[1].capabilities = SortAsc(PrefixedNames(f))

\* C17 witness: the only active test has no tag; capability a comes from a describe
\* that carries a skip tag and capability b from a skipped wrapper that follows it
C17_Witness ==
    /\ Reported
    /\ Len(report.specs) = 1
    /\ report.specs[1].capabilities = <<TagA.name, TagB.name>>
    /\ janitorConfig.skipTags = <<TagW>>
    /\ \E i, d, w \in NodesOf(1) :
          /\ files[1].nodes[i] = Call("test", "string", <<Word>>, "arrowBlock")
          /\ \A j \in NodesOf(1) : IsTestCall(1, j) => j = i
          /\ files[1].nodes[d].callee = "test.describe" /\ MarkedSkipped(1, d)
          /\ IsWrapper(1, w) /\ TagB \in Range(files[1].nodes[w].title)
          /\ w < d

\* the files that have an active test, by position
Qualifying == {f \in 1..Len(files) : \E i \in NodesOf(f) : IsTestCall(f, i) /\ MarkedActive(f, i)}

\* C18: the specs of the report are in ascending path order whatever the order of the
\* input files, with exactly one entry for every file that has an active test and no
\* entry for any other file.
C18_ReportSortedOnePerFile ==
    Reported =>
        /\ \A k \in 1..(Len(report.specs) - 1) : report.specs[k].path < report.specs[k + 1].path
        /\ {report.specs[k].path : k \in 1..Len(report.specs)}
               = {files[f].path : f \in Qualifying}
        /\ Len(report.specs) = Cardinality(Qualifying)

\* C18 witness: three files handed over in descending path order, the middle one
\* without an active test
C18_Witness ==
    /\ Reported
    /\ Len(files) = 3
    /\ files[1].path > files[2].path /\ files[2].path > files[3].path
    /\ Qualifying = {1, 3}
    /\ files[2].nodes # <<>>
    /\ Len(report.specs) = 2

\* C19: a call whose callee is not test, test.only, test.describe, test.fixme or
\* test.skip, or whose first argument is missing or not a literal, gets no TestCallInfo
\* (it is neither a test nor a group), no capability comes from its title, and a file
\* of such calls only yields no spec.
C19_UnrecognizedIgnored ==
    \A f \in Analysed :
        /\ \A i \in NodesOf(f) :
               (files[f].nodes[i].kind = "call" /\ ~Recognized(f, i)) => InfosOfNode(f, i) = {}
        /\ YieldsSpec(f) => Range(analysed[f].spec[1].capabilities) \subseteq PrefixedNames(f)
        /\ (\A i \in NodesOf(f) : ~Recognized(f, i))
               => (analysed[f].calls = <<>> /\ ~YieldsSpec(f))

\* C19 witness: a file of test(title, fn) and expect('@capability:a', ...) only
C19_Witness ==
    /\ Reported
    /\ Len(files) = 1
    /\ report.specs = <<>>
    /\ \E i, j \in NodesOf(1) :
          /\ files[1].nodes[i].callee = "test" /\ files[1].nodes[i].first = "other"
          /\ files[1].nodes[j].callee = "expect"
    /\ \A i \in NodesOf(1) : files[1].nodes[i].kind = "call" /\ ~Recognized(1, i)

\* C19 witness, a reported file: the tag of the expect call is not among the capabilities
C19_WitnessNoTag ==
    /\ Reported
    /\ Len(report.specs) = 1
    /\ report.specs[1].capabilities = <<>>
    /\ \E j \in NodesOf(1) : files[1].nodes[j].callee = "expect"

\* the positions of the input specs that have no capability
CapabilityLess == {i \in 1..Len(specs) : specs[i].capabilities = <<>>}

\* C21: every capability-less spec becomes a packing item of its own: each item with
\* capability none holds exactly one spec, a capability-less one, and has that spec's
\* duration, and every capability-less spec is held by exactly one such item.
C21_StandaloneItems ==
    ItemsBuilt =>
        /\ \A j \in ItemsOf(NoCapability) :
              /\ Len(items[j].specs) = 1
              /\ \E i \in CapabilityLess :
                    /\ specs[i].path = items[j].specs[1]
                    /\ enriched[i].duration = items[j].duration
        /\ \A i \in CapabilityLess :
              Cardinality({j \in ItemsOf(NoCapability) :
                              specs[i].path \in Range(items[j].specs)}) = 1

\* C21 witness: two capability-less specs of different durations beside a capability
\* group, as two items, returned on two different shards
C21_Witness ==
    /\ Done
    /\ Cardinality(CapabilityLess) = 2
    /\ Len(specs) = 3
    /\ Cardinality(ItemsOf(NoCapability)) = 2
    /\ \E j, k \in ItemsOf(NoCapability) : items[j].duration > items[k].duration
    /\ Len(result.shards) = 3

\* the group filed under capability c is split: above maxGroupDuration, two or more members
GroupIsSplit(c) ==
    /\ SumEnriched(GroupMembers(c)) > config.maxGroupDuration
    /\ Cardinality(GroupMembers(c)) >= 2

\* ceil(total / maxGroupDuration) of the group filed under c: the least n with
\* n * maxGroupDuration >= total
NumSubGroupsOf(c) ==
    CHOOSE n \in 0..SumEnriched(GroupMembers(c)) :
        /\ n * config.maxGroupDuration >= SumEnriched(GroupMembers(c))
        /\ \A k \in 0..(n - 1) : k * config.maxGroupDuration < SumEnriched(GroupMembers(c))

\* C22, as stated: a group that is split yields exactly numSubGroups =
\* ceil(total / maxGroupDuration) sub-groups.
C22_SubGroupCountIsCeil ==
    ItemsBuilt =>
        \A c \in Capabilities :
            GroupIsSplit(c) => Cardinality(ItemsOf(c)) = NumSubGroupsOf(c)

\* C22, amended: a group that is split yields at least two sub-groups, at most one per
\* member and at most 2 * numSubGroups - 1 (two neighbouring sub-groups together exceed
\* the target total / numSubGroups); the count can be above or below numSubGroups.
C22_SubGroupCountBounds ==
    ItemsBuilt =>
        \A c \in Capabilities :
            GroupIsSplit(c) =>
                /\ Cardinality(ItemsOf(c)) >= 2
                /\ Cardinality(ItemsOf(c)) <= Cardinality(GroupMembers(c))
                /\ Cardinality(ItemsOf(c)) <= 2 * NumSubGroupsOf(c) - 1

\* C22 witness: three members of equal duration, numSubGroups = 2, three sub-groups
C22_Witness ==
    /\ ItemsBuilt
    /\ \E c \in Capabilities :
          /\ GroupIsSplit(c)
          /\ NumSubGroupsOf(c) = 2
          /\ Cardinality(ItemsOf(c)) = 3

\* C22 witness, the other side: fewer sub-groups than numSubGroups
C22_WitnessFewer ==
    /\ ItemsBuilt
    /\ \E c \in Capabilities :
          /\ GroupIsSplit(c)
          /\ Cardinality(ItemsOf(c)) < NumSubGroupsOf(c)

\* C23: orchestrate leaves its inputs unchanged: no step changes the input spec list
\* (its elements, their order, their path and capabilities), the metrics map or the
\* config, although the groups' arrays and the items array are sorted in place.
C23_InputsUnchanged ==
    [][specs' = specs /\ metrics' = metrics /\ config' = config]_vars

\* C23 witness: both in-place sorts reordered something: the two members of a group
\* came in ascending duration order and the group is returned longest first
C23_Witness ==
    /\ Done
    /\ Len(specs) = 2
    /\ specs[1].capabilities = specs[2].capabilities
    /\ specs[1].capabilities # <<>>
    /\ enriched[1].duration < enriched[2].duration
    /\ Len(result.shards) = 1
    /\ result.shards[1].specs = <<specs[2].path, specs[1].path>>
    /\ specs[1].path < specs[2].path

\* ======================================================================
\* Properties of discover over sets of files
\* ======================================================================
RECURSIVE SpecsOf(_, _)
\* the specs that analysing the files of a list one after the other yields
SpecsOf(fs, cfg) ==
    IF fs = <<>> THEN <<>> ELSE analyzeTestFile(fs[1], cfg) \o SpecsOf(Tail(fs), cfg)

\* the specs of the report of a discovery of its own over the files of a list
DiscoverOf(fs, cfg) == SortByPath(SpecsOf(fs, cfg))

\* the files at the positions in S, in the order they have in files
FilesAt(S) == SelectSeq(files, LAMBDA file : \E f \in S : files[f] = file)

RECURSIVE MergeByPath(_, _)
\* two lists in path order, merged in path order
MergeByPath(xs, ys) ==
    IF xs = <<>> THEN ys
    ELSE IF ys = <<>> THEN xs
    ELSE IF xs[1].path <= ys[1].path THEN <<xs[1]>> \o MergeByPath(Tail(xs), ys)
    ELSE <<ys[1]>> \o MergeByPath(xs, Tail(ys))

C25_MultiSpecItemsWithinLimit ==
    ItemsBuilt =>
        \A j \in 1..Len(items) :
            Len(items[j].specs) >= 2 =>
                /\ items[j].duration <= config.maxGroupDuration
                /\ GroupIsSplit(items[j].capability) =>
                       items[j].duration * NumSubGroupsOf(items[j].capability)
                           <= SumEnriched(GroupMembers(items[j].capability))

\* C25 witness: a split group with a sub-group of two specs that fills the target, and
\* in the same run an item of one spec above maxGroupDuration
C25_Witness ==
    /\ ItemsBuilt
    /\ \E j, k \in 1..Len(items) :
          /\ Len(items[j].specs) = 2
          /\ GroupIsSplit(items[j].capability)
          /\ items[j].duration = config.maxGroupDuration
          /\ Len(items[k].specs) = 1
          /\ items[k].duration > config.maxGroupDuration

\* the buckets exist: the placing loop is running or over
Packing == pc \in {"place", "done"}

\* the duration of the largest packing item (0 when there is none)
LargestItemDuration ==
    IF items = <<>> THEN 0
    ELSE CHOOSE d \in {items[j].duration : j \in 1..Len(items)} :
             \A j \in 1..Len(items) : items[j].duration <= d

\* C26: durations being non-negative, after every placement step the highest and the
\* lowest testTime over all numShards buckets differ by at most the duration of the
\* largest packing item, and so do the testTimes of any two returned shards.
C26_SpreadBounded ==
    /\ Packing =>
          \A a, b \in 1..Len(buckets) :
              buckets[a].testTime - buckets[b].testTime <= LargestItemDuration
    /\ Done =>
          \A a, b \in 1..Len(result.shards) :
              result.shards[a].testTime - result.shards[b].testTime <= LargestItemDuration

\* C26 witness: three items of durations 2, 2, 1 on two buckets, returned as shards of
\* testTime 3 and 2
C26_Witness ==
    /\ Done
    /\ numShards = 2
    /\ Len(items) = 3
    /\ LargestItemDuration = 2
    /\ Len(result.shards) = 2
    /\ result.shards[1].testTime = 3
    /\ result.shards[2].testTime = 2

\* the positions of the input specs whose paths are in a list of paths
SpecsListed(paths) == {i \in 1..Len(specs) : specs[i].path \in Range(paths)}

\* C27: after every placement step each bucket's testTime is the sum of the enriched
\* durations of the specs the bucket holds, and every returned shard's testTime is the
\* sum of the enriched durations of exactly the specs it lists.
C27_TestTimeIsSumOfSpecs ==
    /\ Packing =>
          \A b \in 1..Len(buckets) :
              buckets[b].testTime = SumEnriched(SpecsListed(buckets[b].specs))
    /\ Done =>
          \A k \in 1..Len(result.shards) :
              /\ result.shards[k].testTime = SumEnriched(SpecsListed(result.shards[k].specs))
              /\ Cardinality(SpecsListed(result.shards[k].specs)) = Len(result.shards[k].specs)

\* C27 witness: a split group and a standalone spec on two shards; one shard lists a
\* sub-group and the standalone spec and has the sum of their durations
C27_Witness ==
    /\ Done
    /\ Len(specs) = 3
    /\ Len(items) = 3
    /\ Cardinality(CapabilityLess) = 1
    /\ Len(result.shards) = 2
    /\ \E k \in 1..Len(result.shards) :
          /\ Len(result.shards[k].specs) = 2
          /\ result.shards[k].testTime = 3
          /\ \E i \in CapabilityLess : specs[i].path \in Range(result.shards[k].specs)

\* C30: durations being non-negative, at every step of the placing loop the non-empty
\* buckets form a prefix of the bucket array, so dropping the empty buckets moves none:
\* returned shard k is the bucket at position k (index k - 1 in the code).
C30_NonEmptyBucketsPrefix ==
    /\ Packing =>
          \A b \in 1..Len(buckets) :
              Len(buckets[b].specs) > 0 => \A a \in 1..(b - 1) : Len(buckets[a].specs) > 0
    /\ Done =>
          \A k \in 1..Len(result.shards) :
              /\ result.shards[k].shard = k
              /\ result.shards[k].specs = buckets[k].specs
              /\ result.shards[k].testTime = buckets[k].testTime

\* C30 witness: items of durations 1, 0, 0 on three buckets: the two items of duration
\* 0 both go to bucket 2, bucket 3 stays empty and is dropped
C30_Witness ==
    /\ Done
    /\ numShards = 3
    /\ Len(items) = 3
    /\ Len(buckets[3].specs) = 0
    /\ Len(result.shards) = 2
    /\ result.shards[2].testTime = 0
    /\ Len(result.shards[2].specs) = 2

\* node d of file f is a test.describe call with a literal title that carries a skip tag
IsTaggedDescribe(f, d) ==
    /\ Recognized(f, d)
    /\ files[f].nodes[d].callee = "test.describe"
    /\ HasSkipTag(f, d)

\* C28: a skip tag acts only on the call whose own title carries it: a test.describe
\* with a skip tag in its title is marked skipped, a test inside it that has no skip tag
\* of its own and is in no skipped scope is not, and a file in which nothing else skips
\* that test yields a spec.
C28_SkipTagNotInherited ==
    \A f \in Analysed :
        \A d \in NodesOf(f) :
            IsTaggedDescribe(f, d) =>
                /\ MarkedSkipped(f, d)
                /\ \A i \in NodesOf(f) :
                       (/\ IsTestCall(f, i)
                        /\ Encloses(f, d, i)
                        /\ ~HasSkipTag(f, i)
                        /\ \A s \in analysed[f].skippedScopes : ~Encloses(f, s, i))
                           => (MarkedActive(f, i) /\ YieldsSpec(f))

\* C28 witness: skipTags has '@wip'; the file is a describe tagged '@wip' around one
\* untagged test; there is no skipped scope and the file is reported
C28_Witness ==
    /\ Reported
    /\ janitorConfig.skipTags = <<TagW>>
    /\ Len(files) = 1
    /\ Len(files[1].nodes) = 2
    /\ IsTaggedDescribe(1, 1)
    /\ files[1].nodes[2] = Call("test", "string", <<Word>>, "arrowBlock")
    /\ Encloses(1, 1, 2)
    /\ analysed[1].skippedScopes = {}
    /\ MarkedSkipped(1, 1)
    /\ Len(report.specs) = 1

\* node w of file f is a test.fixme/test.skip call with arguments whose last argument
\* is an inline function with a Block body
MarksOwnBody(f, w) ==
    /\ files[f].nodes[w].kind = "call"
    /\ files[f].nodes[w].callee \in {"test.fixme", "test.skip"}
    /\ files[f].nodes[w].first # "none"
    /\ HasBodyBlock(files[f].nodes[w])

\* C29: a test.fixme()/test.skip() without arguments flags the block that directly
\* encloses it and no other (the skipped scopes are those blocks and the wrapper
\* bodies); only calls inside a skipped scope are skipped by it; the test or describe
\* call whose callback body is the flagged block is not marked skipped by the marker.
C29_MarkerFlagsNearestBlockOnly ==
    \A f \in Analysed :
        /\ analysed[f].skippedScopes =
               {NearestBlock(f, m) : m \in {n \in NodesOf(f) : IsMarker(f, n)}}
                   \cup {w \in NodesOf(f) : MarksOwnBody(f, w)}
        /\ \A i \in NodesOf(f) :
               (/\ Recognized(f, i)
                /\ files[f].nodes[i].callee \in {"test", "test.only", "test.describe"}
                /\ ~HasSkipTag(f, i)
                /\ \A s \in analysed[f].skippedScopes : ~Encloses(f, s, i))
                   => MarkedActive(f, i)
        /\ \A m \in NodesOf(f) :
               (/\ IsMarker(f, m)
                /\ IsTestCall(f, NearestBlock(f, m))
                /\ MarkedActive(f, NearestBlock(f, m)))
                   => YieldsSpec(f)

\* C29 witness: the file is one untagged test with test.skip() as a statement of its
\* body; the body is a skipped scope, the test is not marked skipped, the file is reported
C29_Witness ==
    /\ Reported
    /\ Len(files) = 1
    /\ Len(files[1].nodes) = 2
    /\ files[1].nodes[1] = Call("test", "string", <<Word>>, "arrowBlock")
    /\ files[1].nodes[2] = Call("test.skip", "none", <<>>, "none")
    /\ files[1].parent[2] = 1
    /\ analysed[1].skippedScopes = {1}
    /\ MarkedActive(1, 1)
    /\ Len(report.specs) = 1

====
